---- MODULE Spec2Model ----
(***************************************************************************)
(* SecretHunter (src/secretHunter.py): data_hunter walks a directory tree, *)
(* reads every file with a text extension line by line and searches each   *)
(* stripped line with three regular expressions (email, password, API      *)
(* key), printing one alert block per hit and counting the hits.           *)
(*                                                                         *)
(* A text is a sequence of one-character strings.  The regular expressions *)
(* are syntax trees that a backtracking matcher walks in the order         *)
(* Python's re module tries the alternatives (greedy: longest first, lazy: *)
(* shortest first, alternation: left to right, search: leftmost start).    *)
(***************************************************************************)
EXTENDS Integers, Sequences, FiniteSets

VARIABLES
    pc,               \* position of data_hunter
    rootStatus,       \* what os.listdir(directory) meets: ok / missing / file / noperm
    walked,           \* number of (root, dirs, files) triples os.walk has yielded
    files,            \* the files of the current triple not yet iterated
    file,             \* the name the inner loop holds
    file_path,        \* os.path.join(root, file): the directory's number and the name
    line_num,         \* enumerate(file_handler, 1)
    line,             \* the current line (raw before strip, stripped after)
    match_email,      \* email_regex.search(line)
    match_sensitive,  \* sensitive_data_regex.search(line)
    match_api_key,    \* api_key_regex.search(line)
    hits,             \* the counter
    out,              \* what has been printed, one record per message or block
    seen,             \* the files the inner loop has taken, in order
    opened,           \* the files open() has been called on, in order
    raised            \* the files whose open or read raised, in order

vars == <<pc, rootStatus, walked, files, file, file_path, line_num, line, match_email,
          match_sensitive, match_api_key, hits, out, seen, opened, raised>>

-----------------------------------------------------------------------------
(* Characters *)

Lowercase == <<"a","b","c","d","e","f","g","h","i","j","k","l","m",
               "n","o","p","q","r","s","t","u","v","w","x","y","z">>
Uppercase == <<"A","B","C","D","E","F","G","H","I","J","K","L","M",
               "N","O","P","Q","R","S","T","U","V","W","X","Y","Z">>

Range(f) == {f[i] : i \in DOMAIN f}

LowerLetters == Range(Lowercase)
UpperLetters == Range(Uppercase)
Letters == LowerLetters \cup UpperLetters
Digits == {"0","1","2","3","4","5","6","7","8","9"}

\* str.lower() / str.upper() on one character
ToLower == [c \in UpperLetters |-> Lowercase[CHOOSE i \in DOMAIN Uppercase : Uppercase[i] = c]]
ToUpper == [c \in LowerLetters |-> Uppercase[CHOOSE i \in DOMAIN Lowercase : Lowercase[i] = c]]

LowerChar(c) == IF c \in UpperLetters THEN ToLower[c] ELSE c

UpperChar(c) == IF c \in LowerLetters THEN ToUpper[c] ELSE c

Lower(s) == [i \in DOMAIN s |-> LowerChar(s[i])]

\* what str.strip() removes and \s matches
Whitespace == {" ", "\t", "\n", "\r", "\f"}

\* \w
WordChars == Letters \cup Digits \cup {"_"}

\* line.strip()
RECURSIVE LStrip(_)
LStrip(s) ==
    IF s # <<>> /\ Head(s) \in Whitespace THEN LStrip(Tail(s)) ELSE s

RECURSIVE RStrip(_)
RStrip(s) ==
    IF s # <<>> /\ s[Len(s)] \in Whitespace
    THEN RStrip(SubSeq(s, 1, Len(s) - 1))
    ELSE s

Strip(s) == RStrip(LStrip(s))

-----------------------------------------------------------------------------
(* Regular expressions: syntax trees *)

In(cs) == [t |-> "in", cs |-> cs]
Any == [t |-> "any"]
Cat(rs) == [t |-> "cat", rs |-> rs]
Alt(a, b) == [t |-> "alt", rs |-> <<a, b>>]
\* hi = -1: no upper limit
Rep(r, lo, hi, greedy) == [t |-> "rep", r |-> r, lo |-> lo, hi |-> hi, greedy |-> greedy]
Star(r) == Rep(r, 0, -1, TRUE)
Plus(r) == Rep(r, 1, -1, TRUE)
Opt(r) == Rep(r, 0, 1, TRUE)
LazyStar(r) == Rep(r, 0, -1, FALSE)
Lit(w) == Cat([i \in DOMAIN w |-> In({w[i]})])

\* a character against a class; with re.IGNORECASE either case of it may be in the class
InClass(c, cs, ic) ==
    \/ c \in cs
    \/ ic /\ (LowerChar(c) \in cs \/ UpperChar(c) \in cs)

\* The backtracking matcher.  k is the sequence of nodes still to match (the
\* continuation), i the position of the next character (1-based).  The result
\* is the position after the match the engine finds first, 0 when none.
RECURSIVE Match(_, _, _, _)
Match(k, s, i, ic) ==
    IF Len(k) = 0 THEN i
    ELSE LET n == Head(k)
             rest == Tail(k)
         IN CASE n.t = "in" ->
                   IF i <= Len(s) /\ InClass(s[i], n.cs, ic)
                   THEN Match(rest, s, i + 1, ic) ELSE 0
              [] n.t = "any" ->
                   IF i <= Len(s) /\ s[i] # "\n"
                   THEN Match(rest, s, i + 1, ic) ELSE 0
              [] n.t = "cat" -> Match(n.rs \o rest, s, i, ic)
              [] n.t = "alt" ->
                   LET first == Match(<<n.rs[1]>> \o rest, s, i, ic)
                   IN IF first # 0 THEN first
                      ELSE Match(<<n.rs[2]>> \o rest, s, i, ic)
              [] n.t = "rep" ->
                   LET again == Rep(n.r, IF n.lo > 0 THEN n.lo - 1 ELSE 0,
                                    IF n.hi > 0 THEN n.hi - 1 ELSE n.hi, n.greedy)
                       more == IF n.hi = 0 THEN 0
                               ELSE Match(<<n.r, again>> \o rest, s, i, ic)
                       stop == IF n.lo > 0 THEN 0 ELSE Match(rest, s, i, ic)
                   IN IF n.greedy
                      THEN (IF more # 0 THEN more ELSE stop)
                      ELSE (IF stop # 0 THEN stop ELSE more)

\* A match object is its span (0-based start, exclusive end, as m.span());
\* None is the failed search.
None == [start |-> -1, end |-> -1]

RECURSIVE SearchFrom(_, _, _)
SearchFrom(re, s, i) ==
    IF i > Len(s) + 1 THEN None
    ELSE LET e == Match(<<re.node>>, s, i, re.ic)
         IN IF e # 0 THEN [start |-> i - 1, end |-> e - 1]
            ELSE SearchFrom(re, s, i + 1)

\* a search that keeps the last match of the line instead of the first
RECURSIVE SearchBack(_, _, _)
SearchBack(re, s, i) ==
    IF i < 1 THEN None
    ELSE LET e == Match(<<re.node>>, s, i, re.ic)
         IN IF e # 0 THEN [start |-> i - 1, end |-> e - 1]
            ELSE SearchBack(re, s, i - 1)

SearchLast(re, s) == SearchBack(re, s, Len(s) + 1)

\* pattern.search(line)
Search(re, s) == SearchFrom(re, s, 1)

\* m.group()
Group(s, m) == SubSeq(s, m.start + 1, m.end)

-----------------------------------------------------------------------------
(* The three patterns *)

LocalChars == Letters \cup Digits \cup {".", "_", "%", "+", "-"}
DomainChars == Letters \cup Digits \cup {".", "-"}
Quotes == {"'", "\""}
Separators == {":", "="}

password == <<"p","a","s","s","w","o","r","d">>
api == <<"a","p","i">>
key == <<"k","e","y">>

\* the tail shared by the password and the API-key pattern: \s*[:=]\s*['\"](.*?)['\"]
Assignment ==
    <<Star(In(Whitespace)), In(Separators), Star(In(Whitespace)),
      In(Quotes), LazyStar(Any), In(Quotes)>>

\* [a-zA-Z0-9._%+-]+@[a-zA-Z0-9.-]+\.[a-zA-Z]{2,4}
email_regex ==
    [node |-> Cat(<<Plus(In(LocalChars)), In({"@"}), Plus(In(DomainChars)),
                    In({"."}), Rep(In(Letters), 2, 4, TRUE)>>),
     ic |-> FALSE]

\* the keyword group made mandatory: (...)+ instead of (...)*
sensitive_data_regex_keyword ==
    [node |-> Cat(<<Plus(Alt(Cat(<<Star(In(WordChars \cup {"\""})), Lit(password),
                                    In(WordChars \cup {"\""})>>),
                             Lit(password)))>> \o Assignment),
     ic |-> TRUE]

\* ([\w\"]*password[\w\"]|password)*\s*[:=]\s*['\"](.*?)['\"]   re.IGNORECASE
sensitive_data_regex ==
    [node |-> Cat(<<Star(Alt(Cat(<<Star(In(WordChars \cup {"\""})), Lit(password),
                                    In(WordChars \cup {"\""})>>),
                             Lit(password)))>> \o Assignment),
     ic |-> TRUE]

\* the same pattern compiled without re.IGNORECASE
api_key_regex_cased ==
    [node |-> Cat(<<Lit(api), Opt(In({"_", "-"})), Lit(key)>> \o Assignment),
     ic |-> FALSE]

\* api[_-]?key\s*[:=]\s*['\"](.*?)['\"]   re.IGNORECASE
api_key_regex ==
    [node |-> Cat(<<Lit(api), Opt(In({"_", "-"})), Lit(key)>> \o Assignment),
     ic |-> TRUE]

-----------------------------------------------------------------------------
(* The body of the line loop *)

Alert(kind, f, n, m, text) ==
    [kind |-> kind, file |-> f, line_num |-> n, text |-> text, span |-> m]

\* each block is printed and then counted; st is [out, hits]
EmailBlock(st, f, n, l, m) ==
    IF m # None
    THEN [out |-> Append(st.out, Alert("EMAIL", f, n, m, Group(l, m))),
          hits |-> st.hits + 1]
    ELSE st

PasswordBlock(st, f, n, l, m) ==
    IF m # None
    THEN [out |-> Append(st.out, Alert("PASSWORD", f, n, m, Group(l, m))),
          hits |-> st.hits + 1]
    ELSE st

\* the API-key block without its hits += 1
ApiKeyBlockUncounted(st, f, n, l, m) ==
    IF m # None
    THEN [out |-> Append(st.out, Alert("API KEY", f, n, m, Group(l, m))),
          hits |-> st.hits]
    ELSE st

ApiKeyBlock(st, f, n, l, m) ==
    IF m # None
    THEN [out |-> Append(st.out, Alert("API KEY", f, n, m, Group(l, m))),
          hits |-> st.hits + 1]
    ELSE st

\* the three blocks with the API-key block moved in front of the password block
ReportKeyFirst(st, f, n, l, me, ms, mk) ==
    PasswordBlock(ApiKeyBlock(EmailBlock(st, f, n, l, me), f, n, l, mk), f, n, l, ms)

\* the three if-blocks in source order
Report(st, f, n, l, me, ms, mk) ==
    ApiKeyBlock(PasswordBlock(EmailBlock(st, f, n, l, me), f, n, l, ms), f, n, l, mk)

\* line.strip() and the three searches on the raw line
Searches(raw) ==
    LET l == Strip(raw)
    IN [line |-> l,
        match_email |-> Search(email_regex, l),
        match_sensitive |-> Search(sensitive_data_regex, l),
        match_api_key |-> Search(api_key_regex, l)]

\* one iteration of the line loop; r is Searches(raw) of the line read
ScanLine(f, n, r) ==
    LET st == Report([out |-> out, hits |-> hits], f, n, r.line,
                     r.match_email, r.match_sensitive, r.match_api_key)
    IN /\ line' = r.line
       /\ match_email' = r.match_email
       /\ match_sensitive' = r.match_sensitive
       /\ match_api_key' = r.match_api_key
       /\ out' = st.out
       /\ hits' = st.hits

-----------------------------------------------------------------------------
(* Input lines *)

MaxTld == 5       \* longest TLD of a generated address
MaxAffix == 2     \* longest prefix / suffix around a generated keyword
MaxTokens == 3    \* longest generated token sequence

RECURSIVE Concat(_)
Concat(ss) == IF ss = <<>> THEN <<>> ELSE Head(ss) \o Concat(Tail(ss))

Prefixes(w, n) == {SubSeq(w, 1, k) : k \in 0..(IF n < Len(w) THEN n ELSE Len(w))}

\* addresses: local part, "@", domain, ".", a TLD of 1..MaxTld letters
TldLetters == <<"c","o","m","x","y","z","q","j">>
LocalParts == {<<"u">>, <<"u",".","n">>}
Domains == {<<"h">>, <<"h",".","a","b">>, <<"h","-","1">>}
Tlds == Prefixes(TldLetters, MaxTld) \ {<<>>}
Addresses == {Concat(<<l, <<"@">>, d, <<".">>, t>>) :
                 l \in LocalParts, d \in Domains, t \in Tlds}

EmailLines ==
    {Concat(<<pre, a, post>>) :
        pre \in {<<>>, <<"t","o"," ">>, <<"<">>},
        a \in Addresses,
        post \in {<<>>, <<" ">>, <<" ","v","@","g",".","i","o">>,
                  <<",","w","@","k",".","d","e","v","s">>}}

\* password assignments: prefix, keyword, suffix, spaces, separator, spaces, quoted value
Keywords == {password, <<"P","a","s","s","W","O","R","D">>, <<"p","a","s","s","w","d">>}
Spacings == {<<<<>>, <<>>>>, <<<<" ">>, <<" "," ">>>>}
Seps == {<<":">>, <<"=">>, <<>>}
Quotings == {<<<<"'">>, <<"'">>>>, <<<<"\"">>, <<"\"">>>>, <<<<>>, <<>>>>}
Values == {<<>>, <<"s","3","!">>}

PasswordLines ==
    {Concat(<<lead, pre, kw, suf, sp[1], sep, sp[2], q[1], v, q[2]>>) :
        lead \in {<<>>, <<"x"," ">>},
        pre \in Prefixes(<<"d","b","_","m","y">>, MaxAffix),
        kw \in Keywords,
        suf \in Prefixes(<<"_","2","x","y","z">>, MaxAffix) \cup {<<"\"">>},
        sp \in Spacings, sep \in Seps, q \in Quotings, v \in Values}

\* API-key assignments
ApiKeywords == {<<"a","p","i","_","k","e","y">>, <<"A","P","I","_","K","E","Y">>,
                <<"A","p","i","_","K","e","y">>, <<"a","p","i","-","k","e","y">>,
                <<"a","p","i","k","e","y">>, <<"A","P","I","K","E","Y">>,
                <<"a","p","i","_","_","k","e","y">>, <<"a","p","k","e","y">>}

ApiKeyLines ==
    {Concat(<<lead, kw, sp[1], sep, sp[2], q[1], v, q[2], trail>>) :
        lead \in {<<>>, <<"m","y","_">>},
        kw \in ApiKeywords,
        sp \in Spacings, sep \in Seps, q \in Quotings, v \in Values,
        trail \in {<<>>, <<" ","p","a","s","s","w","o","r","d","=","'","'">>}}

\* anything else: sequences of up to MaxTokens tokens
Tokens == {password, <<"A","P","I","_","k","e","y">>, <<"u","@","h",".","c","o">>,
           <<" ">>, <<"=">>, <<"'">>, <<"\"">>, <<"x">>}

RECURSIVE TokenLines(_)
TokenLines(n) ==
    IF n = 0 THEN {<<>>}
    ELSE LET shorter == TokenLines(n - 1)
         IN shorter \cup {l \o t : l \in shorter, t \in Tokens}

Lines == EmailLines \cup PasswordLines \cup ApiKeyLines \cup TokenLines(MaxTokens)

\* the file the lines are read from
LineFile == <<"a",".","t","x","t">>

-----------------------------------------------------------------------------
(* Matching one line: the loop body on every generated line *)

LineInit ==
    /\ pc = "line"
    /\ rootStatus = "ok"
    /\ walked = 1
    /\ files = <<>>
    /\ file = LineFile
    /\ file_path = [root |-> 1, name |-> LineFile]
    /\ line_num = 0
    /\ line \in Lines
    /\ match_email = None
    /\ match_sensitive = None
    /\ match_api_key = None
    /\ hits = 0
    /\ out = <<>>
    /\ seen = <<[root |-> 1, name |-> LineFile]>>
    /\ opened = <<[root |-> 1, name |-> LineFile]>>
    /\ raised = <<>>

MatchLine ==
    /\ pc = "line"
    /\ ScanLine(file, line_num + 1, Searches(line))
    /\ line_num' = line_num + 1
    /\ pc' = "matched"
    /\ UNCHANGED <<rootStatus, walked, files, file, file_path, seen, opened, raised>>

LineNext == MatchLine

LineSpec == LineInit /\ [][LineNext]_vars

-----------------------------------------------------------------------------
(* The scan: data_hunter(directory) *)

MaxDirs == 2      \* (root, dirs, files) triples os.walk yields
MaxFiles == 2     \* files in the whole tree
MaxLines == 1     \* lines in a file

Msg(kind, f, text) ==
    [kind |-> kind, file |-> f, line_num |-> 0, text |-> text, span |-> None]

\* file names a directory may hold
Names == {<<"a",".","t","x","t">>, <<"B",".","E","N","V">>,
          <<"c",".","e","x","e">>, <<"d","t","x","t">>}

\* lines a file may hold: nothing to find; two addresses; all three kinds, twice each
ScanLines ==
    {<<" ","x"," ">>,
     <<"u","@","h",".","c","o"," ","v","@","g",".","i","o">>,
     <<"a","p","i","k","e","y","=","'","k","'"," ","u","@","h",".","c","o"," ",
       "v","@","g",".","i","o"," ","A","P","I","_","K","E","Y",":","\"","\"","\n">>}

\* the searches on those lines, computed once
ScanSearches == [raw \in ScanLines |-> Searches(raw)]

\* the listings os.walk may yield: names of one directory, each once
RECURSIVE Listings(_)
Listings(n) ==
    IF n = 0 THEN {<<>>}
    ELSE LET shorter == Listings(n - 1)
         IN shorter \cup {Append(l, f) : l \in shorter, f \in Names}

Distinct(l) == \A i, j \in DOMAIN l : l[i] = l[j] => i = j

Extensions == {<<".","t","x","t">>, <<".","p","y">>, <<".","l","o","g">>,
               <<".","j","s","o","n">>, <<".","m","d">>, <<".","c","s","v">>,
               <<".","x","m","l">>, <<".","e","n","v">>}

\* str.endswith
EndsWith(s, e) ==
    Len(s) >= Len(e) /\ SubSeq(s, Len(s) - Len(e) + 1, Len(s)) = e

\* the filter without .lower()
EligibleCased(f) == \E e \in Extensions : EndsWith(f, e)

\* file.lower().endswith((...))
Eligible(f) == \E e \in Extensions : EndsWith(Lower(f), e)

Init ==
    /\ pc = "start"
    /\ rootStatus \in {"ok", "missing", "file", "noperm"}
    /\ walked = 0
    /\ files = <<>>
    /\ file = <<>>
    /\ file_path = [root |-> 0, name |-> <<>>]
    /\ line_num = 0
    /\ line = <<>>
    /\ match_email = None
    /\ match_sensitive = None
    /\ match_api_key = None
    /\ hits = 0
    /\ out = <<>>
    /\ seen = <<>>
    /\ opened = <<>>
    /\ raised = <<>>

RootError ==
    CASE rootStatus = "missing" -> "was not found"
      [] rootStatus = "file" -> "is a file, not a directory"
      [] rootStatus = "noperm" -> "no permission to access"

\* the validation phase without its exit() calls
ValidateNoExit ==
    /\ pc = "start"
    /\ out' = out \o <<Msg("INFO", <<>>, "Scanning directory....")>>
                  \o (IF rootStatus = "ok" THEN <<>>
                      ELSE <<Msg("ROOT ERROR", <<>>, RootError)>>)
                  \o <<Msg("INFO", <<>>, "Directory scanned successfully."),
                       Msg("INFO", <<>>, "Opening Files and reading lines")>>
    /\ pc' = "walk"
    /\ UNCHANGED <<rootStatus, walked, files, file, file_path, line_num, line,
                   match_email, match_sensitive, match_api_key, hits, seen,
                   opened, raised>>

\* the banner, os.listdir(directory) and its three except clauses
Validate ==
    /\ pc = "start"
    /\ IF rootStatus = "ok"
       THEN /\ out' = out \o <<Msg("INFO", <<>>, "Scanning directory...."),
                               Msg("INFO", <<>>, "Directory scanned successfully."),
                               Msg("INFO", <<>>, "Opening Files and reading lines")>>
            /\ pc' = "walk"
       ELSE /\ out' = out \o <<Msg("INFO", <<>>, "Scanning directory...."),
                               Msg("ROOT ERROR", <<>>, RootError)>>
            /\ pc' = "exited"
    /\ UNCHANGED <<rootStatus, walked, files, file, file_path, line_num, line,
                   match_email, match_sensitive, match_api_key, hits, seen,
                   opened, raised>>

\* the outer loop takes the next triple of os.walk
WalkNext ==
    /\ pc = "walk"
    /\ files = <<>>
    /\ walked < MaxDirs
    /\ \E l \in Listings(MaxFiles - Len(seen)) :
          /\ Distinct(l)
          /\ files' = l
    /\ walked' = walked + 1
    /\ UNCHANGED <<pc, rootStatus, file, file_path, line_num, line, match_email,
                   match_sensitive, match_api_key, hits, out, seen, opened, raised>>

\* os.walk is exhausted: the two closing prints
WalkEnd ==
    /\ pc = "walk"
    /\ files = <<>>
    /\ walked >= 1
    /\ out' = out \o <<Msg("INFO", <<>>, "Operation completed succcessfully"),
                       Msg("TOTAL", <<>>, hits)>>
    /\ pc' = "done"
    /\ UNCHANGED <<rootStatus, walked, files, file, file_path, line_num, line,
                   match_email, match_sensitive, match_api_key, hits, seen,
                   opened, raised>>

\* the inner loop takes the next file of the listing
TakeFile ==
    /\ files # <<>>
    /\ file' = Head(files)
    /\ file_path' = [root |-> walked, name |-> Head(files)]
    /\ files' = Tail(files)
    /\ seen' = Append(seen, [root |-> walked, name |-> Head(files)])

\* the extension filter says continue
SkipFile ==
    /\ pc = "walk"
    /\ TakeFile
    /\ ~Eligible(Head(files))
    /\ UNCHANGED <<pc, rootStatus, walked, line_num, line, match_email,
                   match_sensitive, match_api_key, hits, out, opened, raised>>

\* an except clause that lets the error end the scan
ExceptAbort(f) ==
    /\ out' = Append(out, Msg("FILE ERROR", f, "Could not read file"))
    /\ pc' = "exited"

\* except Exception as e: print(...); continue
ExceptHandler(f) ==
    /\ out' = Append(out, Msg("FILE ERROR", f, "Could not read file"))
    /\ pc' = "walk"

\* open(file_path, ...) succeeds
OpenFile ==
    /\ pc = "walk"
    /\ TakeFile
    /\ Eligible(Head(files))
    /\ opened' = Append(opened, file_path')
    /\ line_num' = 0
    /\ pc' = "read"
    /\ UNCHANGED <<rootStatus, walked, line, match_email, match_sensitive,
                   match_api_key, hits, out, raised>>

\* open(file_path, ...) raises
OpenFails ==
    /\ pc = "walk"
    /\ TakeFile
    /\ Eligible(Head(files))
    /\ opened' = Append(opened, file_path')
    /\ raised' = Append(raised, file_path')
    /\ ExceptHandler(Head(files))
    /\ UNCHANGED <<rootStatus, walked, line_num, line, match_email,
                   match_sensitive, match_api_key, hits>>

\* the line loop reads one more line and runs its body
ReadLine ==
    /\ pc = "read"
    /\ line_num < MaxLines
    /\ \E raw \in ScanLines : ScanLine(file, line_num + 1, ScanSearches[raw])
    /\ line_num' = line_num + 1
    /\ UNCHANGED <<pc, rootStatus, walked, files, file, file_path, seen, opened, raised>>

\* reading the next line raises
ReadFails ==
    /\ pc = "read"
    /\ raised' = Append(raised, file_path)
    /\ ExceptHandler(file)
    /\ UNCHANGED <<rootStatus, walked, files, file, file_path, line_num, line,
                   match_email, match_sensitive, match_api_key, hits, seen, opened>>

\* the file is exhausted: the with block closes it
EndOfFile ==
    /\ pc = "read"
    /\ pc' = "walk"
    /\ UNCHANGED <<rootStatus, walked, files, file, file_path, line_num, line,
                   match_email, match_sensitive, match_api_key, hits, out, seen,
                   opened, raised>>

Next ==
    \/ Validate
    \/ WalkEnd
    \/ WalkNext
    \/ SkipFile
    \/ OpenFile
    \/ OpenFails
    \/ ReadLine
    \/ ReadFails
    \/ EndOfFile

Spec == Init /\ [][Next]_vars

-----------------------------------------------------------------------------
(* Properties of the matchers, checked under LineSpec *)

AllIn(s, a, b, cs) == \A i \in a..b : s[i] \in cs

Occurs(s, c) == \E i \in DOMAIN s : s[i] = c

\* the kinds of the alerts of out, in order
Kinds(o) == [i \in DOMAIN o |-> o[i].kind]

CountKind(o, kind) == Cardinality({i \in DOMAIN o : o[i].kind = kind})

\* s is exactly local@domain.tld with a tld of n letters
IsAddress(s, n) ==
    LET q == Len(s) - n
    IN /\ q >= 4
       /\ s[q] = "."
       /\ AllIn(s, q + 1, Len(s), Letters)
       /\ \E p \in 2..(q - 2) :
             /\ s[p] = "@"
             /\ AllIn(s, 1, p - 1, LocalChars)
             /\ AllIn(s, p + 1, q - 1, DomainChars)

\* C1: a line that is one address local@domain.tld gives an email match when
\* the tld has 2, 3 or 4 letters and no email match when it has 1 or 5.
EmailTldBoundary ==
    pc = "matched" =>
        \A n \in 1..5 :
            IsAddress(line, n) => ((match_email # None) <=> (n \in 2..4))

\* s is <prefix>password<suffix><spaces><: or =><spaces><quoted value>
IsPasswordAssignment(s) ==
    /\ Len(s) >= 11
    /\ s[Len(s)] \in Quotes
    /\ \E a \in 1..(Len(s) - 10) :
          /\ Lower(SubSeq(s, a, a + 7)) = password
          /\ AllIn(s, 1, a - 1, WordChars)
          /\ \E b \in (a + 7)..(Len(s) - 3) :
                /\ AllIn(s, a + 8, b, WordChars)
                /\ \E c \in (b + 1)..(Len(s) - 2) :
                      /\ AllIn(s, b + 1, c - 1, {" "})
                      /\ s[c] \in Separators
                      /\ \E d \in (c + 1)..(Len(s) - 1) :
                            /\ AllIn(s, c + 1, d - 1, {" "})
                            /\ s[d] \in Quotes
                            /\ \A i \in (d + 1)..(Len(s) - 1) : s[i] \notin Quotes

\* C2: on a line <prefix>password<suffix> <sep> <quoted value> the password
\* match spans the whole line, from the first character of the prefix to the
\* closing quote.
PasswordSpanWhole ==
    (pc = "matched" /\ IsPasswordAssignment(line)) =>
        match_sensitive = [start |-> 0, end |-> Len(line)]

\* s[a..b] has the shape local@domain.tld with a tld of 2 to 4 letters
IsEmailToken(s, a, b) ==
    \E p \in (a + 1)..(b - 4) :
        /\ s[p] = "@"
        /\ AllIn(s, a, p - 1, LocalChars)
        /\ \E q \in (p + 2)..(b - 2) :
              /\ s[q] = "."
              /\ b - q <= 4
              /\ AllIn(s, p + 1, q - 1, DomainChars)
              /\ AllIn(s, q + 1, b, Letters)

\* the email-like tokens of s, as <<first, last>> positions
EmailTokens(s) ==
    IF ~Occurs(s, "@") THEN {}
    ELSE {ab \in (1..Len(s)) \X (1..Len(s)) : IsEmailToken(s, ab[1], ab[2])}

\* C3: on a line that contains email-like tokens the email match is the first
\* of them (the leftmost start, and there the longest), and the line gives
\* exactly one EMAIL alert, carrying that token; a line without "@" gives none.
FirstEmailWins ==
    pc = "matched" =>
        LET toks == EmailTokens(line)
            m == <<match_email.start + 1, match_email.end>>
        IN /\ toks # {} =>
                 /\ m \in toks
                 /\ \A ab \in toks : m[1] <= ab[1] /\ (ab[1] = m[1] => ab[2] <= m[2])
                 /\ CountKind(out, "EMAIL") = 1
                 /\ \A i \in DOMAIN out :
                       out[i].kind = "EMAIL" => out[i].text = SubSeq(line, m[1], m[2])
           /\ ~Occurs(line, "@") => (match_email = None /\ CountKind(out, "EMAIL") = 0)

\* a line with two addresses, the second after the end of the match
FirstEmailWinsWitness ==
    /\ pc = "matched"
    /\ match_email # None
    /\ \E ab \in EmailTokens(line) : ab[1] > match_email.end + 1
    /\ CountKind(out, "EMAIL") = 1

\* s has a ':' or '=', optional spaces and a quoted value
HasQuotedAssignment(s) ==
    \E c \in DOMAIN s :
        /\ s[c] \in Separators
        /\ \E d \in (c + 1)..Len(s) :
              /\ AllIn(s, c + 1, d - 1, {" "})
              /\ s[d] \in Quotes
              /\ \E e \in (d + 1)..Len(s) : s[e] = s[d]

HasWord(s, w) ==
    \E a \in 1..(Len(s) - Len(w) + 1) : Lower(SubSeq(s, a, a + Len(w) - 1)) = w

\* C4: every line with a ':' or '=' followed by optional spaces and a quoted
\* value gives a PASSWORD alert, the word "password" on the line or not.
PasswordOverMatch ==
    (pc = "matched" /\ HasQuotedAssignment(line)) =>
        /\ match_sensitive # None
        /\ CountKind(out, "PASSWORD") = 1

PasswordOverMatchWitness ==
    /\ pc = "matched"
    /\ HasQuotedAssignment(line)
    /\ ~HasWord(line, password)
    /\ ~HasWord(line, <<"p","a","s","s">>)
    /\ CountKind(out, "PASSWORD") = 1

\* the keywords, in lower case
KeywordForms == {password, <<"a","p","i","_","k","e","y">>,
                 <<"a","p","i","-","k","e","y">>, <<"a","p","i","k","e","y">>}

\* the positions of s inside an occurrence of a keyword, in any letter case
KeywordPositions(s) ==
    {i \in DOMAIN s :
        \E w \in KeywordForms :
            \E a \in (i - Len(w) + 1)..i :
                /\ a >= 1
                /\ a + Len(w) - 1 <= Len(s)
                /\ Lower(SubSeq(s, a, a + Len(w) - 1)) = w}

\* s with its keywords in lower / upper case, everything else as it is
KeywordsLower(s) ==
    LET kp == KeywordPositions(s)
    IN [i \in DOMAIN s |-> IF i \in kp THEN LowerChar(s[i]) ELSE s[i]]

KeywordsUpper(s) ==
    LET kp == KeywordPositions(s)
    IN [i \in DOMAIN s |-> IF i \in kp THEN UpperChar(s[i]) ELSE s[i]]

\* C5: the line with its keywords rewritten in lower case or in upper case
\* gives the same password match and the same API-key match (found or not,
\* same start, same end) as the line itself.
KeywordCaseIgnored ==
    pc = "matched" =>
        \A v \in {KeywordsLower(line), KeywordsUpper(line)} :
            /\ Search(sensitive_data_regex, v) = match_sensitive
            /\ Search(api_key_regex, v) = match_api_key

\* a mixed-case API keyword, matched
KeywordCaseIgnoredWitness ==
    /\ pc = "matched"
    /\ KeywordsLower(line) # line
    /\ KeywordsUpper(line) # line
    /\ match_api_key # None

\* C10: a line with an API-key match has a password match too; its PASSWORD
\* alert is printed before its API KEY alert and the counter rises by 2 or more.
ApiKeyNeverAlone ==
    (pc = "matched" /\ match_api_key # None) =>
        /\ match_sensitive # None
        /\ \E i, j \in DOMAIN out :
              i < j /\ out[i].kind = "PASSWORD" /\ out[j].kind = "API KEY"
        /\ CountKind(out, "API KEY") = 1
        /\ hits >= 2

ApiKeyNeverAloneWitness ==
    /\ pc = "matched"
    /\ match_api_key # None
    /\ Kinds(out) = <<"PASSWORD", "API KEY">>
    /\ hits = 2

-----------------------------------------------------------------------------
(* Properties of the scan, checked under Spec *)

AlertKinds == {"EMAIL", "PASSWORD", "API KEY"}

\* the number of alert blocks in o
NumAlerts(o) == Cardinality({i \in DOMAIN o : o[i].kind \in AlertKinds})

\* on entry to a step, what the step prints
Printed == SubSeq(out', Len(out) + 1, Len(out'))

\* C6: the counter equals the number of alert blocks printed so far; a step
\* adds as many to it as it prints alert blocks, at most one per category and
\* so 0 to 3, and never lowers it; the total printed at the end is the number
\* of alert blocks of the whole traversal.
TallyEqualsFindings ==
    /\ [](/\ hits = NumAlerts(out)
          /\ pc = "done" =>
                /\ out[Len(out)].kind = "TOTAL"
                /\ out[Len(out)].text = NumAlerts(out))
    /\ [][/\ Len(out') >= Len(out)
          /\ SubSeq(out', 1, Len(out)) = out
          /\ hits' - hits = NumAlerts(Printed)
          /\ hits' - hits \in 0..3
          /\ \A k \in AlertKinds : CountKind(Printed, k) <= 1]_vars

\* a finished scan of several lines, one of them with two addresses
TallyEqualsFindingsWitness ==
    /\ pc = "done"
    /\ hits > 3
    /\ CountKind(out, "EMAIL") >= 2
    /\ CountKind(out, "API KEY") >= 1
    /\ \E ab \in EmailTokens(line) : ab[1] > match_email.end + 1

\* the name ends, letter case aside, with one of the eight extensions
HasTextExtension(name) ==
    \E e \in Extensions :
        /\ Len(name) >= Len(e)
        /\ \A i \in 1..Len(e) : LowerChar(name[Len(name) - Len(e) + i]) = e[i]

\* the names a directory may hold that end so
TextNames == {name \in Names : HasTextExtension(name)}

FileErrors(o) == SelectSeq(o, LAMBDA m : m.kind = "FILE ERROR")

\* C7: every open or read that raised is reported with the file's name; the
\* file is not read any further; the error never ends the scan; every eligible
\* file the loop takes, before or after the error, is opened; and the scan can
\* always go on until it has printed the final count.
PerFileErrorsRecoverable ==
    /\ LET errors == FileErrors(out)
       IN /\ Len(errors) = Len(raised)
          /\ \A i \in DOMAIN raised : errors[i].file = raised[i].name
    /\ raised # <<>> => pc # "exited"
    /\ pc = "read" => \A i \in DOMAIN raised : raised[i] # file_path
    /\ \A i \in DOMAIN seen :
          seen[i].name \in TextNames => \E j \in DOMAIN opened : opened[j] = seen[i]
    /\ pc = "done" => (files = <<>> /\ out[Len(out)].kind = "TOTAL")
    /\ (raised # <<>> /\ pc # "done") => ENABLED Next

\* a file that raised, then a later file opened and scanned with findings,
\* then the final count
PerFileErrorsRecoverableWitness ==
    /\ pc = "done"
    /\ Len(raised) >= 1
    /\ Len(opened) > Len(raised)
    /\ \E i, j \in DOMAIN out :
          i < j /\ out[i].kind = "FILE ERROR" /\ out[j].kind \in AlertKinds
    /\ out[Len(out)].kind = "TOTAL"

\* C8: with a root that is missing, a file or not accessible, the run prints
\* one error message and exits: nothing is taken or opened, no alert is
\* printed, the counter stays 0, no final count is printed, no step follows.
FatalPreScan ==
    rootStatus # "ok" =>
        /\ pc \in {"start", "exited"}
        /\ seen = <<>>
        /\ opened = <<>>
        /\ hits = 0
        /\ NumAlerts(out) = 0
        /\ CountKind(out, "TOTAL") = 0
        /\ pc = "exited" =>
              /\ CountKind(out, "ROOT ERROR") = 1
              /\ CountKind(out, "FILE ERROR") = 0
              /\ ~ENABLED Next

FatalPreScanWitness ==
    /\ pc = "exited"
    /\ rootStatus = "file"
    /\ out[Len(out)].kind = "ROOT ERROR"

\* C9: the files opened are exactly the files taken whose name ends, letter
\* case aside, with one of the eight extensions, in the same order; every
\* alert and every file error names such a file.
ExtensionFilter ==
    /\ opened = SelectSeq(seen, LAMBDA p : p.name \in TextNames)
    /\ \A i \in DOMAIN out :
          out[i].kind \in AlertKinds \cup {"FILE ERROR"} => out[i].file \in TextNames

\* a finished scan that took B.ENV and opened it, and took a file it did not open
ExtensionFilterWitness ==
    /\ pc = "done"
    /\ \E i \in DOMAIN opened : opened[i].name = <<"B",".","E","N","V">>
    /\ \E i \in DOMAIN seen : seen[i].name \notin TextNames
    /\ NumAlerts(out) > 0

====
